---- MODULE Spec2Model ----
(***************************************************************************)
(* Timeline video compositor of the YouTube summariser                     *)
(* (src/src/services/videoGenerationService.ts): the segment planner       *)
(* createTimedVideoSegments, the frame loop animateOriginalContentFrames   *)
(* with the frame renderer, and the generation entry point                 *)
(* generateSummaryVideo with its fallbacks; with it the AnimationService   *)
(* (animationService.ts), the summarization service (aiService.ts) and the *)
(* YouTubeProcessor component with its steps tracker (Layout.tsx).         *)
(*                                                                         *)
(* Times are JavaScript numbers in the source.  Here they are exact        *)
(* rationals [n |-> numerator, d |-> denominator] in lowest terms, d > 0;  *)
(* IEEE-754 rounding is not modelled.  A denominator of 0 stands for the   *)
(* non-finite results of a division by zero: Infinity (n = 1), -Infinity   *)
(* (n = -1) and NaN (n = 0).                                               *)
(***************************************************************************)
EXTENDS Integers, Sequences, FiniteSets, TLC

VARIABLES
    pc,                   \* where generateSummaryVideo (or the unit under check) stands
    elevenLabsApiKey,     \* this.elevenLabsApiKey: "" or a key
    thumbnail,            \* videoData.thumbnail
    keyPoints,            \* aiSummary.keyPoints
    totalDuration,        \* `duration` of generateSummaryVideo, the planner's totalDuration
    audioUrl,             \* `audioUrl` of generateSummaryVideo
    originalVideoFrames,  \* this.originalVideoFrames
    audioDuration,        \* this.audioDuration
    segments,             \* the list createTimedVideoSegments returned
    ctx,                  \* canvas.getContext('2d') of createOriginalContentVideo
    loadingUrls,          \* the URLs preloadOriginalFrames started to load
    preloadedFrames,      \* the images preloadOriginalFrames returned, each named by its URL
    recorder,             \* the MediaRecorder of createOriginalContentVideo
    capture,              \* the promise createOriginalContentVideo returned
    loopStatus,           \* animateOriginalContentFrames: whether animate is scheduled
    currentFrame,         \* its currentFrame
    totalFrames,          \* its totalFrames
    previousSegment,      \* its previousSegment: an index into segments, 0 for null
    lastRender,           \* what the last tick handed to the frame renderer and what it drew
    framesRendered,       \* frames the renderer has painted
    stopCalls,            \* calls of mediaRecorder.stop()
    discardTicks,         \* runs of animate since the host discarded the generation
                          \* (counted up to MaxDiscardTicks), -1 while it has not
    thumbCtx,             \* canvas.getContext('2d') of generateOriginalThumbnail
    result,               \* what generateSummaryVideo settled with
    animCall,             \* the AnimationService call under check and its arguments
    drawn,                \* the draw directives that call issued
    groqApiKey,           \* AIService.groqApiKey: "" or a key
    openaiApiKey,         \* AIService.openaiApiKey: "" or a key
    url,                  \* YouTubeProcessor state: url
    isProcessing,         \* YouTubeProcessor state: isProcessing
    steps,                \* YouTubeProcessor state: the status of each of the four steps
    error,                \* YouTubeProcessor state: error, "null" or the message
    videoData,            \* YouTubeProcessor state: videoData, "null" or the video id
    aiSummary,            \* YouTubeProcessor state: aiSummary
    generatedVideo        \* YouTubeProcessor state: generatedVideo, "null" or the result

inputVars == <<elevenLabsApiKey, thumbnail, keyPoints>>
voiceVars == <<totalDuration, audioUrl, originalVideoFrames, audioDuration, segments>>
captureVars == <<ctx, loadingUrls, preloadedFrames, recorder, capture>>
loopVars == <<loopStatus, currentFrame, totalFrames, previousSegment, lastRender,
              framesRendered, stopCalls, discardTicks>>
endVars == <<thumbCtx, result>>
animVars == <<animCall, drawn>>
appVars == <<groqApiKey, openaiApiKey, url, isProcessing, steps, error, videoData,
             aiSummary, generatedVideo>>

vars == <<pc, inputVars, voiceVars, captureVars, loopVars, endVars, animVars, appVars>>

----------------------------------------------------------------------------
(* Bounds of the checked input spaces. *)

\* longest key-point list handed to the planner
MaxKeyPoints == 5
\* planner durations run over k / DurationDen seconds
DurationDen == 2
\* largest planner duration, in seconds
MaxPlanSeconds == 61
\* most negative planner duration, in seconds
MaxNegSeconds == 1

----------------------------------------------------------------------------
(* Exact rational arithmetic standing for the source's number arithmetic. *)

Abs(x) == IF x < 0 THEN -x ELSE x

RECURSIVE Gcd(_, _)
Gcd(a, b) == IF b = 0 THEN a ELSE Gcd(b, a % b)

\* n / d for d > 0, in lowest terms
R(n, d) ==
    LET g == Gcd(Abs(n), d)
    IN  [n |-> n \div g, d |-> d \div g]

RInt(k) == [n |-> k, d |-> 1]
RZero == RInt(0)
RFinite(a) == a.d # 0
RAdd(a, b) == R(a.n * b.d + b.n * a.d, a.d * b.d)
RSub(a, b) == R(a.n * b.d - b.n * a.d, a.d * b.d)
\* a * (p / q), q > 0
RScale(a, p, q) == R(a.n * p, a.d * q)
\* a * b
RMul(a, b) == R(a.n * b.n, a.d * b.d)
ROne == RInt(1)
RLt(a, b) == a.n * b.d < b.n * a.d
RLe(a, b) == a.n * b.d <= b.n * a.d
\* Math.min
RMin(a, b) == IF RLt(b, a) THEN b ELSE a
\* a / k for an integer k >= 0; k = 0 gives Infinity, -Infinity or NaN
RDivInt(a, k) ==
    IF k = 0
    THEN [n |-> IF a.n > 0 THEN 1 ELSE IF a.n < 0 THEN -1 ELSE 0, d |-> 0]
    ELSE R(a.n, a.d * k)

----------------------------------------------------------------------------
(* extractOriginalVideoFrames: the thumbnail followed by the eight         *)
(* img.youtube.com variations of the video id.  A frame is named by its    *)
(* URL; the metadata fallback sets videoData.thumbnail to the hqdefault    *)
(* URL, so the thumbnail may equal the second variation.                   *)

thumbnailVariations ==
    <<"maxresdefault", "hqdefault", "mqdefault", "sddefault",
      "0.jpg", "1.jpg", "2.jpg", "3.jpg">>

ThumbnailUrls == {"snippet.high", "hqdefault"}

extractOriginalVideoFrames(thumb) == <<thumb>> \o thumbnailVariations

----------------------------------------------------------------------------
(* createTimedVideoSegments *)

KeyPointTexts == {"p", "q"}

introDuration(total) == RMin(RInt(8), RScale(total, 3, 20))
conclusionDuration(total) == RMin(RInt(8), RScale(total, 3, 20))
keyPointsTotalDuration(total) ==
    RSub(RSub(total, introDuration(total)), conclusionDuration(total))
keyPointDuration_offByOne(total, count) == RDivInt(keyPointsTotalDuration(total), count + 1)
keyPointDuration(total, count) == RDivInt(keyPointsTotalDuration(total), count)

introSegment(frames, total) ==
    [ startTime |-> RZero,
      endTime |-> introDuration(total),
      type |-> "intro",
      text |-> "title",
      originalVideoFrame |-> frames[1],
      transitions |-> << [type |-> "crossfade", duration |-> R(3, 2),
                          direction |-> "none", easing |-> "easeInOut"] >>,
      visualElements |-> << [type |-> "text",
                             title |-> "title",
                             content |-> "",
                             animation |-> [type |-> "slideIn", duration |-> RInt(2),
                                            delay |-> R(1, 2)],
                             percentage |-> RZero] >> ]

keyPointTransition_byThree(index) ==
    [ type |-> IF index % 3 = 0 THEN "slide" ELSE "zoom",
      duration |-> RInt(1),
      direction |-> IF index % 4 = 0 THEN "left"
                    ELSE IF index % 4 = 1 THEN "right"
                    ELSE IF index % 4 = 2 THEN "up" ELSE "down",
      easing |-> "easeInOut" ]

\* the transition of key point `index` (0-based, as in the source)
keyPointTransition(index) ==
    [ type |-> IF index % 2 = 0 THEN "slide" ELSE "zoom",
      duration |-> RInt(1),
      direction |-> IF index % 4 = 0 THEN "left"
                    ELSE IF index % 4 = 1 THEN "right"
                    ELSE IF index % 4 = 2 THEN "up" ELSE "down",
      easing |-> "easeInOut" ]

keyPointText_rev(points, index) == points[Len(points) - index]
\* the key point the forEach callback receives for `index` (0-based)
keyPointText(points, index) == points[index + 1]

\* the body of aiSummary.keyPoints.forEach, for `index` (0-based)
keyPointSegment(points, frames, total, index) ==
    LET kpd == keyPointDuration(total, Len(points))
        start == RAdd(introDuration(total), RScale(kpd, index, 1))
        frameIndex == (index + 1) % Len(frames)
    IN  [ startTime |-> start,
          endTime |-> RAdd(start, kpd),
          type |-> "keypoint",
          text |-> keyPointText(points, index),
          originalVideoFrame |-> frames[frameIndex + 1],
          transitions |-> << keyPointTransition(index) >>,
          visualElements |->
            << [type |-> "text",
                title |-> "Key Insight",
                content |-> keyPointText(points, index),
                animation |-> [type |-> IF index % 3 = 0 THEN "typewriter"
                                        ELSE IF index % 3 = 1 THEN "wave" ELSE "scaleIn",
                               duration |-> R(3, 2), delay |-> R(1, 2)],
                percentage |-> RZero],
               [type |-> "progress",
                title |-> "",
                content |-> "",
                animation |-> [type |-> "slideIn", duration |-> R(4, 5),
                               delay |-> R(3, 10)],
                percentage |-> R((index + 1) * 100, Len(points))] >> ]

conclusionSegment(frames, total) ==
    [ startTime |-> RSub(total, conclusionDuration(total)),
      endTime |-> total,
      type |-> "conclusion",
      text |-> "Summary Complete",
      originalVideoFrame |-> frames[Len(frames)],
      transitions |-> << [type |-> "particle", duration |-> RInt(2),
                          direction |-> "none", easing |-> "easeOut"] >>,
      visualElements |-> << [type |-> "text",
                             title |-> "Summary Complete!",
                             content |-> "",
                             animation |-> [type |-> "glitch", duration |-> RInt(2),
                                            delay |-> RZero],
                             percentage |-> RZero] >> ]

createTimedVideoSegments(points, frames, total) ==
    <<introSegment(frames, total)>>
    \o [i \in 1..Len(points) |-> keyPointSegment(points, frames, total, i - 1)]
    \o <<conclusionSegment(frames, total)>>

----------------------------------------------------------------------------
(* The planner as a unit: its inputs are drawn from the bounded sets and   *)
(* the one action applies it.  The source has no check of totalDuration,   *)
(* so every call returns a list.                                           *)

KeyPointLists == UNION {[1..n -> KeyPointTexts] : n \in 0..MaxKeyPoints}

PlanDurations ==
    {R(k, DurationDen) : k \in (-MaxNegSeconds * DurationDen)..(MaxPlanSeconds * DurationDen)}

NoSegments == <<>>

NoRender == [invoked |-> FALSE]
NoResult == [status |-> "pending"]
NoCall == [method |-> "none"]
NoDraw == <<>>
NoSummary == [summary |-> "null", keyPoints |-> <<>>, sentiment |-> "null"]

\* the initial state of YouTubeProcessor: lines 432-470 of Layout.tsx
NoSubmission ==
    /\ url = ""
    /\ isProcessing = FALSE
    /\ steps = <<"pending", "pending", "pending", "pending">>
    /\ error = "null"
    /\ videoData = "null"
    /\ aiSummary = NoSummary
    /\ generatedVideo = "null"

\* no page is open and no LLM key is configured
NotSubmitted ==
    /\ groqApiKey = ""
    /\ openaiApiKey = ""
    /\ NoSubmission

\* nothing of the capture, the frame loop or the result exists yet
NotCapturing ==
    /\ ctx = "none"
    /\ loadingUrls = <<>>
    /\ preloadedFrames = <<>>
    /\ recorder = "none"
    /\ capture = "none"
    /\ loopStatus = "none"
    /\ currentFrame = 0
    /\ totalFrames = RZero
    /\ previousSegment = 0
    /\ lastRender = NoRender
    /\ framesRendered = 0
    /\ stopCalls = 0
    /\ discardTicks = -1
    /\ thumbCtx = "none"
    /\ result = NoResult
    /\ animCall = NoCall
    /\ drawn = NoDraw

PlannerInit ==
    /\ pc = "plan"
    /\ elevenLabsApiKey = ""
    /\ thumbnail \in ThumbnailUrls
    /\ keyPoints \in KeyPointLists
    /\ totalDuration \in PlanDurations
    /\ audioUrl = "none"
    /\ originalVideoFrames = extractOriginalVideoFrames(thumbnail)
    /\ audioDuration = RZero
    /\ segments = NoSegments
    /\ NotCapturing
    /\ NotSubmitted

Plan ==
    /\ pc = "plan"
    /\ segments' = createTimedVideoSegments(keyPoints, originalVideoFrames, totalDuration)
    /\ pc' = "planned"
    /\ UNCHANGED <<appVars, animVars, inputVars, totalDuration, audioUrl, originalVideoFrames, audioDuration,
                   captureVars, loopVars, endVars>>

PlannerNext == Plan

PlannerSpec == PlannerInit /\ [][PlannerNext]_vars

----------------------------------------------------------------------------
(* generateTimedVoiceover and generateTimedMockAudio.  The script of        *)
(* createNaturalScript enters only through its word count.                  *)

RMax(a, b) == IF RLt(a, b) THEN b ELSE a
\* a / b for b > 0
RDiv(a, b) == R(a.n * b.d, a.d * b.n)

estimatedDuration_unclamped(wordCount) == R(wordCount * 60, 150)
\* Math.max(30, Math.min(120, (wordCount / 150) * 60))
estimatedDuration(wordCount) ==
    RMax(RInt(30), RMin(RInt(120), R(wordCount * 60, 150)))

\* generateTimedMockAudio: the catch around the AudioContext returns '' and 60
generateTimedMockAudio(wordCount, audioContext) ==
    IF audioContext = "ok"
    THEN [audioUrl |-> "data:audio/wav", duration |-> estimatedDuration(wordCount)]
    ELSE [audioUrl |-> "", duration |-> RInt(60)]

\* generateTimedVoiceover once the fetch has settled
fetchedVoiceover(outcome, wordCount, audioContext) ==
    IF outcome = "ok"
    THEN [audioUrl |-> "blob:audio", duration |-> estimatedDuration(wordCount)]
    ELSE generateTimedMockAudio(wordCount, audioContext)

----------------------------------------------------------------------------
(* The frame renderer: renderOriginalContentFrame and what it calls.  A     *)
(* render is recorded by its draw directives, not by pixels.                *)

fps == 30

\* Array.prototype.findIndex, 0-based, -1 when absent
findIndex(frames, frameUrl) ==
    IF \E i \in 1..Len(frames) : frames[i] = frameUrl
    THEN (CHOOSE i \in 1..Len(frames) :
              frames[i] = frameUrl /\ \A j \in 1..(i - 1) : frames[j] # frameUrl) - 1
    ELSE -1

getFrameForSegment(segment, preloaded, frames) ==
    IF Len(preloaded) = 0
    THEN "null"
    ELSE LET frameIndex == findIndex(frames, segment.originalVideoFrame)
         IN  IF frameIndex >= 0 /\ frameIndex < Len(preloaded)
             THEN preloaded[frameIndex + 1]
             ELSE preloaded[1]

\* t < 0.5 ? 2 * t * t : 1 - Math.pow(-2 * t + 2, 2) / 2
\* (VideoGenerationService.easeInOut and easingFunctions.easeInOut are this text)
easeInOut(t) ==
    IF RLt(t, R(1, 2))
    THEN RScale(RMul(t, t), 2, 1)
    ELSE LET u == RAdd(RScale(t, -2, 1), RInt(2))
         IN  RSub(ROne, RScale(RMul(u, u), 1, 2))

\* the canvas clip in force for a drawImage: none, a rect or a circle (arc)
NoClip == [kind |-> "none", x |-> RZero, y |-> RZero, width |-> RZero, height |-> RZero]
rectClip(x, y, width, height) ==
    [kind |-> "rect", x |-> x, y |-> y, width |-> width, height |-> height]
\* arc(x, y, radius, 0, 2 * PI): width holds the radius
arcClip(x, y, radius) ==
    [kind |-> "arc", x |-> x, y |-> y, width |-> radius, height |-> radius]

\* ctx.drawImage(image, x, y, width, height) under globalAlpha `alpha`, a scale of
\* `scale` about the centre of the rectangle, and `clip`
imageDirective(image, x, y, width, height, alpha, scale, clip) ==
    [image |-> image, x |-> x, y |-> y, width |-> width, height |-> height,
     alpha |-> alpha, scale |-> scale, clip |-> clip]

\* a null image is not drawn
drawnImages(directives) == SelectSeq(directives, LAMBDA d : d.image # "null")

\* canvas.width, canvas.height
CanvasWidth == 1920
CanvasHeight == 1080
CanvasBounds ==
    [x |-> RZero, y |-> RZero, width |-> RInt(CanvasWidth), height |-> RInt(CanvasHeight)]

\* the drawImage calls of createImageTransition's switch, given the eased progress;
\* a type without a case draws nothing, and no case reads transition.direction
createImageTransition(fromImage, toImage, transition, easedProgress, bounds) ==
    LET rest == RSub(ROne, easedProgress)
    IN  IF transition.type = "crossfade"
        THEN drawnImages(<<
               imageDirective(fromImage, bounds.x, bounds.y, bounds.width, bounds.height,
                              rest, ROne, NoClip),
               imageDirective(toImage, bounds.x, bounds.y, bounds.width, bounds.height,
                              easedProgress, ROne, NoClip) >>)
        ELSE IF transition.type = "slide"
        THEN drawnImages(<<
               imageDirective(fromImage, RSub(bounds.x, RMul(bounds.width, easedProgress)),
                              bounds.y, bounds.width, bounds.height, ROne, ROne, NoClip),
               imageDirective(toImage, RAdd(bounds.x, RMul(bounds.width, rest)),
                              bounds.y, bounds.width, bounds.height, ROne, ROne, NoClip) >>)
        ELSE IF transition.type = "zoom"
        THEN drawnImages(<<
               imageDirective(fromImage, bounds.x, bounds.y, bounds.width, bounds.height,
                              rest, RAdd(ROne, RScale(easedProgress, 1, 5)), NoClip),
               imageDirective(toImage, bounds.x, bounds.y, bounds.width, bounds.height,
                              easedProgress, RAdd(R(4, 5), RScale(easedProgress, 1, 5)),
                              NoClip) >>)
        ELSE << >>

renderOriginalVideoBackground(segment, previous, segmentTime, preloaded, frames) ==
    LET current == getFrameForSegment(segment, preloaded, frames)
        previousFrame == IF previous = 0 THEN "null"
                         ELSE getFrameForSegment(segments[previous], preloaded, frames)
    IN  IF RLt(segmentTime, RInt(1)) /\ previousFrame # "null"
           /\ Len(segment.transitions) > 0
        THEN LET transitionProgress == RDiv(segmentTime, segment.transitions[1].duration)
                 \* line 726: always this.easeInOut, whatever transition.easing names
                 easedProgress == easeInOut(transitionProgress)
                 directives == createImageTransition(previousFrame, current,
                                   segment.transitions[1], easedProgress, CanvasBounds)
             IN  [ mode |-> "transition",
                   transition |-> segment.transitions[1].type,
                   progress |-> transitionProgress,
                   eased |-> easedProgress,
                   from |-> previousFrame,
                   to |-> current,
                   directives |-> directives,
                   painted |-> {directives[i].image : i \in 1..Len(directives)} ]
        ELSE IF current # "null"
        THEN [ mode |-> "parallax", transition |-> "none", progress |-> RZero,
               eased |-> RZero, from |-> "null", to |-> current, directives |-> << >>,
               painted |-> {current} ]
        ELSE [ mode |-> "gradient", transition |-> "none", progress |-> RZero,
               eased |-> RZero, from |-> "null", to |-> "null", directives |-> << >>,
               painted |-> {"gradient"} ]

elementVisible_nonNegative(progress) == RLe(RZero, progress)
\* if (progress > 0)
elementVisible(progress) == RLt(RZero, progress)

\* progress of an element's animation and the draw calls the element causes, in
\* the order they are made
renderEnhancedVisualElement(element, segmentTime) ==
    LET progress == RMax(RZero, RMin(RInt(1),
                        RDiv(RSub(segmentTime, element.animation.delay),
                             element.animation.duration)))
        textCalls == (IF element.title # "" THEN <<"fillText">> ELSE <<>>)
                     \o (IF element.content # "" THEN <<"wrapText">> ELSE <<>>)
    IN  [ type |-> element.type,
          progress |-> progress,
          calls |-> IF ~elementVisible(progress) THEN <<>>
                    ELSE IF element.type = "text" THEN textCalls
                    ELSE IF element.type = "progress" THEN <<"fillRect", "fillRect">>
                    ELSE <<>> ]

renderOriginalContentFrame(index, previous, frame, preloaded, frames) ==
    LET segment == segments[index]
        segmentTime == RSub(R(frame, fps), segment.startTime)
    IN  [ invoked |-> TRUE,
          painted |-> TRUE,
          frame |-> frame,
          currentTime |-> R(frame, fps),
          segment |-> index,
          previousSegment |-> previous,
          segmentTime |-> segmentTime,
          background |-> renderOriginalVideoBackground(segment, previous, segmentTime,
                                                       preloaded, frames),
          elements |-> [e \in 1..Len(segment.visualElements) |->
                          renderEnhancedVisualElement(segment.visualElements[e],
                                                      segmentTime)] ]

\* the renderer was entered with a null context: ctx.canvas throws before it draws
thrownRender(index, previous, frame) ==
    [ invoked |-> TRUE,
      painted |-> FALSE,
      frame |-> frame,
      currentTime |-> R(frame, fps),
      segment |-> index,
      previousSegment |-> previous ]

----------------------------------------------------------------------------
(* animateOriginalContentFrames *)

\* segments.find(s => currentTime >= s.startTime && currentTime < s.endTime):
\* the index of the first such segment, 0 for undefined
findSegment(currentTime) ==
    LET hits == {i \in 1..Len(segments) :
                    /\ RLe(segments[i].startTime, currentTime)
                    /\ RLt(currentTime, segments[i].endTime)}
    IN  IF hits = {} THEN 0 ELSE CHOOSE i \in hits : \A j \in hits : i <= j

continueLoop_inclusive(frame, total) == RLe(RInt(frame), total)
continueLoop_early(frame, total) == RLt(RInt(frame + 1), total)
\* currentFrame < totalFrames
continueLoop(frame, total) == RLt(RInt(frame), total)

\* mediaRecorder.stop(): the stop event follows; an inactive recorder stays as it is
stopRecorder(rec) == IF rec = "recording" THEN "stopping" ELSE rec

\* longest count of animate runs kept after a discard
MaxDiscardTicks == 2

\* animate reads no cancellation flag; the run is only counted
tickCounted ==
    discardTicks' = IF discardTicks = -1 THEN -1
                    ELSE IF discardTicks < MaxDiscardTicks THEN discardTicks + 1
                    ELSE discardTicks

\* one run of `animate` at currentFrame = frame
animate(frame, previous, total, rec, preloaded) ==
    LET index == findSegment(R(frame, fps))
    IN  IF index # 0 /\ ctx = "null"
        THEN \* the TypeError leaves animate: nothing is scheduled, onComplete never runs
             /\ loopStatus' = "crashed"
             /\ lastRender' = thrownRender(index, previous, frame)
             /\ currentFrame' = frame
             /\ previousSegment' = previous
             /\ recorder' = rec
             /\ tickCounted
             /\ UNCHANGED <<framesRendered, stopCalls>>
        ELSE /\ lastRender' = IF index # 0
                              THEN renderOriginalContentFrame(index, previous, frame,
                                                              preloaded, originalVideoFrames)
                              ELSE NoRender
             /\ framesRendered' = IF index # 0 THEN framesRendered + 1 ELSE framesRendered
             /\ previousSegment' = IF index # 0 THEN index ELSE previous
             /\ currentFrame' = frame + 1
             /\ tickCounted
             /\ IF continueLoop(frame + 1, total)
                THEN /\ loopStatus' = "scheduled"
                     /\ recorder' = rec
                     /\ UNCHANGED stopCalls
                ELSE /\ loopStatus' = "done"
                     /\ recorder' = stopRecorder(rec)
                     /\ stopCalls' = stopCalls + 1

----------------------------------------------------------------------------
(* generateSummaryVideo.  One action is one browser task: an event handler  *)
(* or a call together with the promise continuations that run before the    *)
(* next task.                                                               *)

\* largest key-point list of a generation request
MaxRequestKeyPoints == 1
\* the script has k * WordsStep words, k in 1..MaxWordSteps
WordsStep == 75
MaxWordSteps == 1
\* the first MaxFailingFrames frame URLs may fail to load or time out
MaxFailingFrames == 1

RequestKeyPointLists == UNION {[1..n -> {"p"}] : n \in 0..MaxRequestKeyPoints}
ScriptWordCounts == {k * WordsStep : k \in 1..MaxWordSteps}
FailableUrls(frames) == {frames[i] : i \in 1..MaxFailingFrames}

Init ==
    /\ pc = "idle"
    /\ elevenLabsApiKey \in {"", "key"}
    /\ thumbnail \in ThumbnailUrls
    /\ keyPoints \in RequestKeyPointLists
    /\ totalDuration = RZero
    /\ audioUrl = "none"
    /\ originalVideoFrames = <<>>
    /\ audioDuration = RZero
    /\ segments = NoSegments
    /\ NotCapturing
    /\ NotSubmitted

\* generateEnhancedMockVideo
generateEnhancedMockVideo(frames, duration) ==
    LET d == IF duration = RZero THEN RInt(60) ELSE duration
    IN  [ status |-> "resolved",
          videoUrl |-> "",
          downloadUrl |-> "",
          thumbnailUrl |-> thumbnail,
          duration |-> d,
          segments |-> createTimedVideoSegments(keyPoints, frames, d),
          audioUrl |-> "",
          originalVideoFrames |-> frames ]

\* lines 119-127, 500-509: the voiceover is in; plan, create the canvas and start
\* loading the frames
voiceoverReady(voice, frames) ==
    /\ audioUrl' = voice.audioUrl
    /\ totalDuration' = voice.duration
    /\ audioDuration' = voice.duration
    /\ segments' = createTimedVideoSegments(keyPoints, frames, voice.duration)
    /\ ctx' \in {"ok", "null"}
    /\ loadingUrls' = frames
    /\ pc' = "preloading"

\* the call: frames extracted; without an API key the mock audio is synchronous
Generate ==
    /\ pc = "idle"
    /\ originalVideoFrames' = extractOriginalVideoFrames(thumbnail)
    /\ IF elevenLabsApiKey = ""
       THEN \E wordCount \in ScriptWordCounts, audioContext \in {"ok", "throws"} :
                voiceoverReady(generateTimedMockAudio(wordCount, audioContext),
                               originalVideoFrames')
       ELSE /\ pc' = "fetching"
            /\ UNCHANGED <<totalDuration, audioUrl, audioDuration, segments, ctx,
                           loadingUrls>>
    /\ UNCHANGED <<appVars, animVars, inputVars, preloadedFrames, recorder, capture, loopVars, endVars>>

\* the ElevenLabs request settles: a response that is ok, one that is not, or a
\* rejection
FetchSettled ==
    /\ pc = "fetching"
    /\ \E outcome \in {"ok", "notOk", "rejected"}, wordCount \in ScriptWordCounts,
          audioContext \in {"ok", "throws"} :
          voiceoverReady(fetchedVoiceover(outcome, wordCount, audioContext),
                         originalVideoFrames)
    /\ UNCHANGED <<appVars, animVars, inputVars, originalVideoFrames, preloadedFrames, recorder, capture,
                   loopVars, endVars>>

\* generateOriginalThumbnail up to img.src = videoData.thumbnail
startThumbnail ==
    /\ thumbCtx' \in {"ok", "null"}
    /\ pc' = "thumbnailing"
    /\ UNCHANGED result

\* the catch of generateSummaryVideo
fallBackToMock ==
    /\ result' = generateEnhancedMockVideo(originalVideoFrames, audioDuration)
    /\ pc' = "done"
    /\ UNCHANGED thumbCtx

\* every image load has settled: lines 509-548
FramesPreloaded ==
    /\ pc = "preloading"
    /\ \E failed \in SUBSET FailableUrls(loadingUrls) :
          preloadedFrames' = SelectSeq(loadingUrls, LAMBDA u : u \notin failed)
    /\ \E construct \in {"ok", "throws"}, start \in {"ok", "throws"} :
          IF construct = "throws"
          THEN \* caught in createOriginalContentVideo: createContentMatchedMockVideo
               /\ capture' = "placeholder"
               /\ recorder' = "none"
               /\ startThumbnail
               /\ UNCHANGED loopVars
          ELSE IF start = "throws"
          THEN \* thrown in the executor: the promise is rejected
               /\ capture' = "rejected"
               /\ recorder' = "inactive"
               /\ fallBackToMock
               /\ UNCHANGED loopVars
          ELSE /\ capture' = "pending"
               /\ totalFrames' = RScale(audioDuration, fps, 1)
               /\ animate(0, 0, totalFrames', "recording", preloadedFrames')
               /\ pc' = "capturing"
               /\ UNCHANGED endVars
    /\ UNCHANGED <<appVars, animVars, inputVars, voiceVars, ctx, loadingUrls>>

\* a requestAnimationFrame callback
Tick ==
    /\ loopStatus = "scheduled"
    /\ animate(currentFrame, previousSegment, totalFrames, recorder, preloadedFrames)
    /\ UNCHANGED <<pc, appVars, animVars, inputVars, voiceVars, ctx, loadingUrls, preloadedFrames,
                   capture, totalFrames, endVars>>

\* mediaRecorder.onstop
RecorderStopped ==
    /\ recorder = "stopping"
    /\ recorder' = "stopped"
    /\ capture' = "blob:video"
    /\ startThumbnail
    /\ UNCHANGED <<appVars, animVars, inputVars, voiceVars, ctx, loadingUrls, preloadedFrames,
                   loopVars>>

\* mediaRecorder.onerror while recording
RecorderError ==
    /\ recorder = "recording"
    /\ recorder' = "inactive"
    /\ capture' = "rejected"
    /\ fallBackToMock
    /\ UNCHANGED <<appVars, animVars, inputVars, voiceVars, ctx, loadingUrls, preloadedFrames,
                   loopVars>>

\* lines 135-142
generatedResult(thumbnailUrl) ==
    [ status |-> "resolved",
      videoUrl |-> capture,
      downloadUrl |-> capture,
      thumbnailUrl |-> thumbnailUrl,
      duration |-> audioDuration,
      segments |-> segments,
      audioUrl |-> audioUrl,
      originalVideoFrames |-> originalVideoFrames ]

\* img.onload or img.onerror of generateOriginalThumbnail; with a null context the
\* handler throws and the promise is never resolved
thumbnailSettled(thumbnailUrl) ==
    /\ pc = "thumbnailing"
    /\ IF thumbCtx = "ok"
       THEN /\ result' = generatedResult(thumbnailUrl)
            /\ pc' = "done"
       ELSE /\ pc' = "thumbnailThrew"
            /\ UNCHANGED result
    /\ UNCHANGED <<appVars, animVars, inputVars, voiceVars, captureVars, loopVars, thumbCtx>>

ThumbnailLoaded == thumbnailSettled("data:composite")

ThumbnailFailed == thumbnailSettled("data:fallback")

\* the user follows a navigation link while YouTubeProcessor awaits
\* generateSummaryVideo: the component is unmounted and the result will be dropped.
\* Nothing of the service is told.
Discard ==
    /\ pc \in {"preloading", "capturing"}
    /\ discardTicks = -1
    /\ discardTicks' = 0
    /\ UNCHANGED <<pc, appVars, animVars, inputVars, voiceVars, captureVars, loopStatus,
                   currentFrame, totalFrames, previousSegment, lastRender,
                   framesRendered, stopCalls, endVars>>

Next ==
    \/ Generate
    \/ FetchSettled
    \/ FramesPreloaded
    \/ Tick
    \/ RecorderStopped
    \/ RecorderError
    \/ ThumbnailLoaded
    \/ ThumbnailFailed

Spec == Init /\ [][Next]_vars

\* What the browser guarantees of a generation: a started call runs on, the
\* 5000 ms timers of loadImage fire, requestAnimationFrame callbacks run and a
\* stopped recorder fires its stop event.  Generate, FramesPreloaded and Tick are
\* enabled exactly when pc = "idle", pc = "preloading" and loopStatus = "scheduled",
\* and each leaves its enabling condition after finitely many steps, so their weak
\* fairness is stated through these conditions.  Nothing makes the ElevenLabs
\* request or the thumbnail image answer, and the code sets no timer on either.
TimedSpec ==
    /\ Init
    /\ [][Next]_vars
    /\ WF_vars(RecorderStopped)
    /\ []<>(pc # "idle")
    /\ []<>(pc # "preloading")
    /\ []<>(loopStatus # "scheduled")

\* a generation whose host may discard it
HostNext ==
    \/ Next
    \/ Discard

HostSpec == Init /\ [][HostNext]_vars

----------------------------------------------------------------------------
(* A second generateSummaryVideo call on the same exported instance, for    *)
(* another video, overlapping the first.  Only its writes to the instance   *)
(* fields are modelled; they land between the tasks of the first call.      *)

\* extractOriginalVideoFrames of the other call: its thumbnail and the variations
\* built from its videoId
otherVideoFrames ==
    << "other.thumbnail", "other.maxresdefault", "other.hqdefault", "other.mqdefault",
       "other.sddefault", "other.0.jpg", "other.1.jpg", "other.2.jpg", "other.3.jpg" >>
\* a duration generateTimedVoiceover returns: that of a 150-word script, and of the
\* mock audio's catch
otherDuration == RInt(60)

InFlight == pc \in {"fetching", "preloading", "capturing", "thumbnailing"}

\* line 114 of the other call
OtherCallExtracts ==
    /\ InFlight
    /\ originalVideoFrames # otherVideoFrames
    /\ originalVideoFrames' = otherVideoFrames
    /\ UNCHANGED <<pc, appVars, animVars, inputVars, totalDuration, audioUrl, audioDuration,
                   segments, captureVars, loopVars, endVars>>

\* line 119 of the other call
OtherCallVoiceover ==
    /\ InFlight
    /\ originalVideoFrames = otherVideoFrames
    /\ audioDuration # otherDuration
    /\ audioDuration' = otherDuration
    /\ UNCHANGED <<pc, appVars, animVars, inputVars, totalDuration, audioUrl, originalVideoFrames,
                   segments, captureVars, loopVars, endVars>>

OverlapNext ==
    \/ Generate
    \/ FetchSettled
    \/ FramesPreloaded
    \/ Tick
    \/ RecorderStopped
    \/ ThumbnailLoaded
    \/ ThumbnailFailed
    \/ OtherCallExtracts
    \/ OtherCallVoiceover

OverlapSpec == Init /\ [][OverlapNext]_vars

----------------------------------------------------------------------------
(* The capture as a unit: createOriginalContentVideo is entered with a      *)
(* segment list planned for totalDuration while this.audioDuration, which   *)
(* the frame loop reads, is a field of its own; both are drawn from short   *)
(* durations, whole numbers of frames or not.                               *)

\* capture durations run over k / 4 seconds, k in 1..MaxLoopQuarters
MaxLoopQuarters == 10
\* longest key-point list of a capture
MaxLoopKeyPoints == 3

LoopDurations == {R(k, 4) : k \in 1..MaxLoopQuarters}
LoopKeyPointLists == UNION {[1..n -> {"p"}] : n \in 0..MaxLoopKeyPoints}

CaptureInit ==
    /\ pc = "preloading"
    /\ elevenLabsApiKey = ""
    /\ thumbnail \in ThumbnailUrls
    /\ keyPoints \in LoopKeyPointLists
    /\ totalDuration \in LoopDurations
    /\ audioDuration \in LoopDurations
    /\ audioUrl = "data:audio/wav"
    /\ originalVideoFrames = extractOriginalVideoFrames(thumbnail)
    /\ segments = createTimedVideoSegments(keyPoints, originalVideoFrames, totalDuration)
    /\ ctx \in {"ok", "null"}
    /\ loadingUrls = originalVideoFrames
    /\ preloadedFrames = <<>>
    /\ recorder = "none"
    /\ capture = "none"
    /\ loopStatus = "none"
    /\ currentFrame = 0
    /\ totalFrames = RZero
    /\ previousSegment = 0
    /\ lastRender = NoRender
    /\ framesRendered = 0
    /\ stopCalls = 0
    /\ discardTicks = -1
    /\ thumbCtx = "none"
    /\ result = NoResult
    /\ animCall = NoCall
    /\ drawn = NoDraw
    /\ NotSubmitted

CaptureNext ==
    \/ FramesPreloaded
    \/ Tick
    \/ RecorderStopped
    \/ RecorderError
    \/ ThumbnailLoaded
    \/ ThumbnailFailed

CaptureSpec == CaptureInit /\ [][CaptureNext]_vars

----------------------------------------------------------------------------
(* The voiceover as a unit: lines 118-123 of generateSummaryVideo for       *)
(* scripts of every length up to MaxScriptWords, then the catch of line 143 *)

MaxScriptWords == 320

\* line 118 to 123: the voiceover settles (mock audio without a key, the fetch
\* otherwise) and the segments are planned for its duration
Voiceover ==
    /\ pc = "voice"
    /\ \E wordCount \in 1..MaxScriptWords, audioContext \in {"ok", "throws"},
          outcome \in {"ok", "notOk", "rejected"} :
          LET voice == IF elevenLabsApiKey = ""
                       THEN generateTimedMockAudio(wordCount, audioContext)
                       ELSE fetchedVoiceover(outcome, wordCount, audioContext)
          IN  /\ audioUrl' = voice.audioUrl
              /\ totalDuration' = voice.duration
              /\ audioDuration' = voice.duration
              /\ segments' = createTimedVideoSegments(keyPoints, originalVideoFrames,
                                                      voice.duration)
    /\ pc' = "voiced"
    /\ UNCHANGED <<appVars, animVars, inputVars, originalVideoFrames, captureVars, loopVars, endVars>>

\* a later step throws: the catch plans again for this.audioDuration || 60
VoiceFallback ==
    /\ pc = "voiced"
    /\ result' = generateEnhancedMockVideo(originalVideoFrames, audioDuration)
    /\ totalDuration' = result'.duration
    /\ pc' = "fellBack"
    /\ UNCHANGED <<appVars, animVars, inputVars, audioUrl, originalVideoFrames, audioDuration, segments,
                   captureVars, loopVars, thumbCtx>>

VoiceInit ==
    /\ pc = "voice"
    /\ elevenLabsApiKey \in {"", "key"}
    /\ thumbnail \in ThumbnailUrls
    /\ keyPoints \in RequestKeyPointLists
    /\ totalDuration = RZero
    /\ audioUrl = "none"
    /\ originalVideoFrames = extractOriginalVideoFrames(thumbnail)
    /\ audioDuration = RZero
    /\ segments = NoSegments
    /\ NotCapturing
    /\ NotSubmitted

VoiceNext ==
    \/ Voiceover
    \/ VoiceFallback

VoiceSpec == VoiceInit /\ [][VoiceNext]_vars

----------------------------------------------------------------------------
(* The summarization service (src/src/services/aiService.ts).  An LLM       *)
(* response enters through what JSON.parse makes of its content: whether it *)
(* parses, and the summary, keyPoints and sentiment fields of the object.   *)

\* longest keyPoints array of an LLM response
MaxResponseKeyPoints == 7

ResponseTexts == <<"k1", "k2", "k3", "k4", "k5", "k6", "k7", "k8", "k9">>

\* the outcomes of one chat-completions request: the fetch rejects, the response is
\* not ok, it has no choices[0].message, or it carries a content
LlmFailures ==
    {[status |-> st, json |-> FALSE, summary |-> "", kind |-> "missing", items |-> <<>>,
      sentiment |-> ""] : st \in {"rejected", "notOk", "badFormat"}}

LlmContents ==
    {[status |-> "content", json |-> FALSE, summary |-> "", kind |-> "missing",
      items |-> <<>>, sentiment |-> ""]}
    \cup
    {[status |-> "content", json |-> TRUE, summary |-> su, kind |-> ki, items |-> <<>>,
      sentiment |-> se] :
        su \in {"", "summary"}, ki \in {"missing", "notArray"},
        se \in {"positive", "mixed"}}
    \cup
    {[status |-> "content", json |-> TRUE, summary |-> su, kind |-> "array",
      items |-> SubSeq(ResponseTexts, 1, n), sentiment |-> se] :
        su \in {"", "summary"}, n \in 0..MaxResponseKeyPoints,
        se \in {"positive", "mixed"}}

LlmResponses == LlmFailures \cup LlmContents

\* Array.prototype.slice(0, end)
slice(items, end) == SubSeq(items, 1, IF Len(items) < end THEN Len(items) ELSE end)

\* parseAIResponse after JSON.parse succeeded
parseAIResponse(content) ==
    [ summary |-> IF content.summary # "" THEN content.summary
                  ELSE "AI-generated summary not available",
      keyPoints |-> IF content.kind = "array" THEN slice(content.items, 6) ELSE <<>>,
      sentiment |-> IF content.sentiment \in {"positive", "neutral", "negative"}
                    THEN content.sentiment ELSE "neutral" ]

ContentTypes == {"educational", "technical", "business", "review", "general"}

\* generateContextualKeyPoints: five key points for each kind of content
generateContextualKeyPoints(contentType) ==
    IF contentType = "educational"
    THEN <<"Comprehensive step-by-step approach", "Practical examples",
           "Common pitfalls", "Essential tools", "Expert tips">>
    ELSE IF contentType = "technical"
    THEN <<"Technical implementation details", "Code examples",
           "Performance optimization", "Integration strategies", "Troubleshooting">>
    ELSE IF contentType = "business"
    THEN <<"Strategic insights", "Market analysis", "ROI considerations",
           "Implementation roadmap", "Success metrics">>
    ELSE IF contentType = "review"
    THEN <<"Comprehensive feature analysis", "Real-world performance",
           "Value proposition", "User experience", "Final recommendations">>
    ELSE <<"Key insights", "Practical applications", "Important considerations",
           "Expert perspectives", "Next steps">>

generateMockSummary(contentType, sentiment) ==
    [ summary |-> contentType,
      keyPoints |-> generateContextualKeyPoints(contentType),
      sentiment |-> sentiment ]

\* generateSummaryWithGroq or generateSummaryWithOpenAI settled with `response`:
\* whether it threw, and the summary it returned if it did not
generateSummaryWith(response) ==
    [ threw |-> response.status # "content" \/ ~response.json,
      summary |-> parseAIResponse(response) ]

----------------------------------------------------------------------------
(* YouTubeProcessor (src/src/components/Layout.tsx): the form, handleSubmit  *)
(* and the steps tracker.  One action is handleSubmit up to its next await   *)
(* that leaves the task; the timers of lines 499, 507 and 516 are part of    *)
(* the action of the request that follows them.                              *)

Urls == {"", "not a video", "youtu.be/a", "youtu.be/b"}

\* youtubeService.extractVideoId
extractVideoId(u) ==
    IF u = "youtu.be/a" THEN "a" ELSE IF u = "youtu.be/b" THEN "b" ELSE "null"

updateStepStatus_onlyIndex(prev, stepIndex, status) ==
    [prev EXCEPT ![stepIndex + 1] = status]

\* updateStepStatus, stepIndex 0-based as in the source
updateStepStatus(prev, stepIndex, status) ==
    [index \in 1..Len(prev) |->
        IF index - 1 = stepIndex THEN status
        ELSE IF index - 1 < stepIndex THEN "completed" ELSE "pending"]

\* the catch and the finally of handleSubmit, `prev` being the steps so far
submissionFailed(prev) ==
    /\ error' = "Failed to process video. Please try again."
    /\ steps' = [index \in 1..Len(prev) |->
                    IF prev[index] = "processing" THEN "error" ELSE prev[index]]
    /\ isProcessing' = FALSE
    /\ pc' = "form"

\* lines 511-515: the summary is in
analysed(summary) ==
    /\ aiSummary' = summary
    /\ steps' = updateStepStatus(updateStepStatus(steps, 1, "completed"), 2, "processing")
    /\ pc' = "generating"
    /\ UNCHANGED <<isProcessing, error>>

serviceVars == <<inputVars, voiceVars, captureVars, loopVars, endVars, animVars>>

\* the user edits the input, which is disabled while isProcessing
SetUrl ==
    /\ pc = "form"
    /\ ~isProcessing
    /\ \E u \in Urls \ {url} : url' = u
    /\ UNCHANGED <<pc, groqApiKey, openaiApiKey, isProcessing, steps, error, videoData,
                   aiSummary, generatedVideo, serviceVars>>

\* handleSubmit to its first await
Submit ==
    /\ pc = "form"
    /\ ~isProcessing
    /\ url # ""
    /\ IF extractVideoId(url) = "null"
       THEN /\ error' = "Please enter a valid YouTube URL"
            /\ UNCHANGED <<pc, isProcessing, steps, videoData, aiSummary, generatedVideo>>
       ELSE /\ isProcessing' = TRUE
            /\ generatedVideo' = "null"
            /\ videoData' = "null"
            /\ aiSummary' = NoSummary
            /\ error' = "null"
            /\ steps' = updateStepStatus(steps, 0, "processing")
            /\ pc' = "extracting"
    /\ UNCHANGED <<groqApiKey, openaiApiKey, url, serviceVars>>

\* youtubeService.fetchVideoData settled
VideoDataSettled ==
    /\ pc = "extracting"
    /\ \E outcome \in {"ok", "throws"} :
          IF outcome = "ok"
          THEN /\ videoData' = extractVideoId(url)
               /\ steps' = updateStepStatus(updateStepStatus(steps, 0, "completed"),
                                            1, "processing")
               /\ pc' = "transcribing"
               /\ UNCHANGED <<isProcessing, error>>
          ELSE /\ submissionFailed(steps)
               /\ UNCHANGED videoData
    /\ UNCHANGED <<groqApiKey, openaiApiKey, url, aiSummary, generatedVideo, serviceVars>>

\* youtubeService.fetchTranscript settled; aiService.generateSummary runs to its
\* first request, or to the mock summary when there is none to make
TranscriptSettled ==
    /\ pc = "transcribing"
    /\ \E outcome \in {"ok", "throws"}, transcript \in {"", "text"},
          contentType \in ContentTypes, sentiment \in {"positive", "neutral"} :
          IF outcome = "throws"
          THEN /\ submissionFailed(steps)
               /\ UNCHANGED aiSummary
          ELSE IF transcript # "" /\ groqApiKey # ""
          THEN /\ pc' = "groq"
               /\ UNCHANGED <<isProcessing, steps, error, aiSummary>>
          ELSE IF transcript # "" /\ openaiApiKey # ""
          THEN /\ pc' = "openai"
               /\ UNCHANGED <<isProcessing, steps, error, aiSummary>>
          ELSE analysed(generateMockSummary(contentType, sentiment))
    /\ UNCHANGED <<groqApiKey, openaiApiKey, url, videoData, generatedVideo, serviceVars>>

\* the Groq request settled
GroqSettled ==
    /\ pc = "groq"
    /\ \E response \in LlmResponses, contentType \in ContentTypes,
          sentiment \in {"positive", "neutral"} :
          LET groq == generateSummaryWith(response)
          IN  IF ~groq.threw
              THEN analysed(groq.summary)
              ELSE IF openaiApiKey # ""
              THEN /\ pc' = "openai"
                   /\ UNCHANGED <<isProcessing, steps, error, aiSummary>>
              ELSE analysed(generateMockSummary(contentType, sentiment))
    /\ UNCHANGED <<groqApiKey, openaiApiKey, url, videoData, generatedVideo, serviceVars>>

\* the OpenAI request settled
OpenAISettled ==
    /\ pc = "openai"
    /\ \E response \in LlmResponses, contentType \in ContentTypes,
          sentiment \in {"positive", "neutral"} :
          LET openai == generateSummaryWith(response)
          IN  IF ~openai.threw
              THEN analysed(openai.summary)
              ELSE analysed(generateMockSummary(contentType, sentiment))
    /\ UNCHANGED <<groqApiKey, openaiApiKey, url, videoData, generatedVideo, serviceVars>>

\* videoGenerationService.generateSummaryVideo settled
VideoSettled ==
    /\ pc = "generating"
    /\ \E outcome \in {"resolved", "rejected"} :
          IF outcome = "resolved"
          THEN /\ generatedVideo' = "result"
               /\ steps' = updateStepStatus(updateStepStatus(steps, 2, "completed"),
                                            3, "completed")
               /\ isProcessing' = FALSE
               /\ pc' = "form"
               /\ UNCHANGED error
          ELSE /\ submissionFailed(steps)
               /\ UNCHANGED generatedVideo
    /\ UNCHANGED <<groqApiKey, openaiApiKey, url, videoData, aiSummary, serviceVars>>

AppInit ==
    /\ pc = "form"
    /\ groqApiKey \in {"", "key"}
    /\ openaiApiKey \in {"", "key"}
    /\ NoSubmission
    /\ elevenLabsApiKey = ""
    /\ thumbnail = "hqdefault"
    /\ keyPoints = <<>>
    /\ totalDuration = RZero
    /\ audioUrl = "none"
    /\ originalVideoFrames = <<>>
    /\ audioDuration = RZero
    /\ segments = NoSegments
    /\ NotCapturing

AppNext ==
    \/ SetUrl
    \/ Submit
    \/ VideoDataSettled
    \/ TranscriptSettled
    \/ GroqSettled
    \/ OpenAISettled
    \/ VideoSettled

AppSpec == AppInit /\ [][AppNext]_vars

----------------------------------------------------------------------------
(* AnimationService (animationService.ts) as a unit: one method is called   *)
(* with arguments drawn from bounded sets and its draw directives recorded. *)

\* Math.sin(k * Math.PI / 6) for an odd k
sinSixths(k) ==
    LET m == k % 12
    IN  IF m = 3 THEN ROne
        ELSE IF m = 9 THEN RInt(-1)
        ELSE IF m \in {1, 5} THEN R(1, 2)
        ELSE R(-1, 2)

\* Math.pow(2, e) for an integer e
pow2(e) == IF e >= 0 THEN RInt(2 ^ e) ELSE R(1, 2 ^ (-e))

\* -Math.pow(2, 10 * t - 10) * Math.sin((t * 10 - 10.75) * c4), c4 = 2 * PI / 3,
\* for t a whole number of tenths: the sine is that of (4 * 10t - 43) * PI / 6
elasticCurve(t) ==
    LET tenths == (t.n * 10) \div t.d
    IN  RMul(RSub(RZero, pow2(tenths - 10)), sinSixths(4 * tenths - 43))

elastic_noSpecialCase(t) == elasticCurve(t)
\* easingFunctions.elastic
elastic(t) == IF t = RZero THEN RZero ELSE IF t = ROne THEN ROne ELSE elasticCurve(t)

\* easingFunctions.bounce: n1 = 7.5625 = 121/16, d1 = 2.75 = 11/4
bounce(t) ==
    LET n1 == R(121, 16)
        sq(u) == RMul(n1, RMul(u, u))
    IN  IF RLt(t, R(4, 11)) THEN sq(t)
        ELSE IF RLt(t, R(8, 11)) THEN RAdd(sq(RSub(t, R(6, 11))), R(3, 4))
        ELSE IF RLt(t, R(10, 11)) THEN RAdd(sq(RSub(t, R(9, 11))), R(15, 16))
        ELSE RAdd(sq(RSub(t, R(21, 22))), R(63, 64))

EasingNames == {"linear", "easeIn", "easeOut", "easeInOut", "bounce", "elastic"}

\* this.easingFunctions[name](t)
easingFunctions(name, t) ==
    IF name = "linear" THEN t
    ELSE IF name = "easeIn" THEN RMul(t, t)
    ELSE IF name = "easeOut" THEN RSub(ROne, RMul(RSub(ROne, t), RSub(ROne, t)))
    ELSE IF name = "easeInOut" THEN easeInOut(t)
    ELSE IF name = "bounce" THEN bounce(t)
    ELSE elastic(t)

\* progress values are k / 10, k in 0..MaxProgressTenths
MaxProgressTenths == 10
ProgressValues == {R(k, 10) : k \in 0..MaxProgressTenths}

EasingCalls ==
    {[method |-> "easing", name |-> n, t |-> t] :
        n \in EasingNames \cup {"VideoGenerationService.easeInOut"}, t \in ProgressValues}

\* Math.floor of a number >= 0
RFloor(a) == a.n \div a.d
\* Math.max(0, Math.min(1, v))
clamp01(v) == IF RLt(v, RZero) THEN RZero ELSE IF RLt(ROne, v) THEN ROne ELSE v

\* one text directive: fillText of the first `chars` characters at (x, y) under
\* globalAlpha `alpha` and scale `scale`, or the caret rectangle after them
textDirective(op, chars, x, alpha, scale) ==
    [op |-> op, chars |-> chars, x |-> x, alpha |-> alpha, scale |-> scale]

\* renderTypewriterText; `now` is Date.now()
renderTypewriterText(length, x, progress, now) ==
    LET visibleChars == RFloor(RScale(progress, length, 1))
    IN  << textDirective("fillText", visibleChars, x, ROne, ROne) >>
        \o IF RLt(progress, ROne) /\ (now \div 500) % 2 = 1
           THEN << textDirective("fillRect", visibleChars, x, ROne, ROne) >>
           ELSE << >>

renderFadeInText(length, x, progress) ==
    << textDirective("fillText", length, x, easingFunctions("easeOut", progress), ROne) >>

renderSlideInText(length, x, progress) ==
    LET easedProgress == easingFunctions("easeOut", progress)
        currentX == RSub(x, RScale(RSub(ROne, easedProgress), 100, 1))
    IN  << textDirective("fillText", length, currentX, easedProgress, ROne) >>

renderScaleInText(length, x, progress) ==
    LET easedProgress == easingFunctions("bounce", progress)
        scale == RAdd(R(3, 10), RScale(easedProgress, 7, 10))
    IN  << textDirective("fillText", length, x, progress, scale) >>

\* createTextAnimation for the types that draw without Math.random and Math.sin
createTextAnimation(length, x, animation, progress, now) ==
    LET animationProgress ==
            clamp01(RDiv(RSub(progress, animation.delay), animation.duration))
    IN  IF animation.type = "typewriter"
        THEN renderTypewriterText(length, x, animationProgress, now)
        ELSE IF animation.type = "fadeIn"
        THEN renderFadeInText(length, x, animationProgress)
        ELSE IF animation.type = "slideIn"
        THEN renderSlideInText(length, x, animationProgress)
        ELSE renderScaleInText(length, x, animationProgress)

\* longest text, in characters
MaxTextLength == 3
\* Date.now() runs over k * 500 ms, k in 0..MaxClockSteps
MaxClockSteps == 2
WallClocks == {k * 500 : k \in 0..MaxClockSteps}

TextCalls ==
    {[method |-> "text", length |-> l, x |-> RZero,
      animation |-> [type |-> ty, duration |-> du, delay |-> de], progress |-> pr] :
        l \in 1..MaxTextLength,
        ty \in {"typewriter", "fadeIn", "slideIn", "scaleIn"},
        du \in {ROne, R(3, 2)}, de \in {RZero, R(1, 2)}, pr \in ProgressValues}

renderCrossfadeTransition(fromImage, toImage, progress, bounds) ==
    drawnImages(<<
      imageDirective(fromImage, bounds.x, bounds.y, bounds.width, bounds.height,
                     RSub(ROne, progress), ROne, NoClip),
      imageDirective(toImage, bounds.x, bounds.y, bounds.width, bounds.height,
                     progress, ROne, NoClip) >>)

renderSlideTransition(fromImage, toImage, progress, bounds, direction) ==
    LET x == bounds.x
        y == bounds.y
        width == bounds.width
        height == bounds.height
        rest == RSub(ROne, progress)
        fromX == IF direction = "left" THEN RSub(x, RMul(width, progress))
                 ELSE IF direction = "right" THEN RAdd(x, RMul(width, progress))
                 ELSE x
        toX == IF direction = "left" THEN RAdd(x, RMul(width, rest))
               ELSE IF direction = "right" THEN RSub(x, RMul(width, rest))
               ELSE x
        fromY == IF direction = "up" THEN RSub(y, RMul(height, progress))
                 ELSE IF direction = "down" THEN RAdd(y, RMul(height, progress))
                 ELSE y
        toY == IF direction = "up" THEN RAdd(y, RMul(height, rest))
               ELSE IF direction = "down" THEN RSub(y, RMul(height, rest))
               ELSE y
    IN  drawnImages(<<
          imageDirective(fromImage, fromX, fromY, width, height, ROne, ROne, NoClip),
          imageDirective(toImage, toX, toY, width, height, ROne, ROne, NoClip) >>)

renderZoomTransition(fromImage, toImage, progress, bounds) ==
    drawnImages(<<
      imageDirective(fromImage, bounds.x, bounds.y, bounds.width, bounds.height,
                     RSub(ROne, progress), RSub(ROne, RScale(progress, 1, 2)), NoClip),
      imageDirective(toImage, bounds.x, bounds.y, bounds.width, bounds.height,
                     progress, RAdd(R(1, 2), RScale(progress, 1, 2)), NoClip) >>)

renderWipeTransition(fromImage, toImage, progress, bounds, direction) ==
    LET x == bounds.x
        y == bounds.y
        width == bounds.width
        height == bounds.height
        rest == RSub(ROne, progress)
        clip == IF direction = "left"
                THEN rectClip(x, y, RMul(width, progress), height)
                ELSE IF direction = "right"
                THEN rectClip(RAdd(x, RMul(width, rest)), y, RMul(width, progress), height)
                ELSE IF direction = "up"
                THEN rectClip(x, y, width, RMul(height, progress))
                ELSE IF direction = "down"
                THEN rectClip(x, RAdd(y, RMul(height, rest)), width, RMul(height, progress))
                ELSE arcClip(RAdd(x, RScale(width, 1, 2)), RAdd(y, RScale(height, 1, 2)),
                             RScale(RMul(RMin(width, height), progress), 1, 2))
    IN  drawnImages(<<
          imageDirective(fromImage, x, y, width, height, ROne, ROne, NoClip),
          imageDirective(toImage, x, y, width, height, ROne, ROne, clip) >>)

TransitionTypes == {"crossfade", "slide", "zoom", "wipe"}
Directions == {"left", "right", "up", "down", "center"}

\* AnimationService.createImageTransition, for the types of TransitionTypes and the
\* easings of EasingNames; `x || progress` takes progress for an eased value of 0
AnimationService_createImageTransition(fromImage, toImage, transition, progress, bounds) ==
    LET eased == easingFunctions(transition.easing, progress)
        easedProgress == IF eased = RZero THEN progress ELSE eased
    IN  IF transition.type = "crossfade"
        THEN renderCrossfadeTransition(fromImage, toImage, easedProgress, bounds)
        ELSE IF transition.type = "slide"
        THEN renderSlideTransition(fromImage, toImage, easedProgress, bounds,
                                   transition.direction)
        ELSE IF transition.type = "zoom"
        THEN renderZoomTransition(fromImage, toImage, easedProgress, bounds)
        ELSE renderWipeTransition(fromImage, toImage, easedProgress, bounds,
                                  transition.direction)

\* the bounds of the unit's transitions, in pixels
BoundsWidth == 4
BoundsHeight == 2
UnitBounds ==
    [x |-> RZero, y |-> RZero, width |-> RInt(BoundsWidth), height |-> RInt(BoundsHeight)]

TransitionCalls ==
    {[method |-> "transition", progress |-> pr,
      transition |-> [type |-> ty, duration |-> ROne, direction |-> di, easing |-> ea]] :
        ty \in TransitionTypes, di \in Directions, ea \in EasingNames,
        pr \in ProgressValues}

\* TransitionEffect.easing is any string; this one is no key of easingFunctions
UnknownEasing == "spring"

\* this.easingFunctions[name]: the key found, or undefined
easingLookup(name) == IF name \in EasingNames THEN name ELSE "undefined"

UnknownEasingCalls ==
    {[method |-> "transition", progress |-> pr,
      transition |-> [type |-> ty, duration |-> ROne, direction |-> "left",
                      easing |-> UnknownEasing]] :
        ty \in TransitionTypes, pr \in ProgressValues}

\* interpolateValue: an unknown easing is replaced by linear
interpolateValue(from, to, progress, easing) ==
    LET easingFn == IF easingLookup(easing) = "undefined" THEN "linear" ELSE easing
        easedProgress == easingFunctions(easingFn, progress)
    IN  RAdd(from, RMul(RSub(to, from), easedProgress))

InterpolateCalls ==
    {[method |-> "interpolate", from |-> RInt(2), to |-> RInt(12), progress |-> pr,
      easing |-> ea] :
        ea \in EasingNames \cup {UnknownEasing}, pr \in ProgressValues}

AnimationCalls ==
    EasingCalls \cup TextCalls \cup TransitionCalls \cup UnknownEasingCalls
    \cup InterpolateCalls

AnimationInit ==
    /\ pc = "animation"
    /\ animCall \in AnimationCalls
    /\ drawn = NoDraw
    /\ elevenLabsApiKey = ""
    /\ thumbnail = "hqdefault"
    /\ keyPoints = <<>>
    /\ totalDuration = RZero
    /\ audioUrl = "none"
    /\ originalVideoFrames = <<>>
    /\ audioDuration = RZero
    /\ segments = NoSegments
    /\ ctx = "none"
    /\ loadingUrls = <<>>
    /\ preloadedFrames = <<>>
    /\ recorder = "none"
    /\ capture = "none"
    /\ loopStatus = "none"
    /\ currentFrame = 0
    /\ totalFrames = RZero
    /\ previousSegment = 0
    /\ lastRender = NoRender
    /\ framesRendered = 0
    /\ stopCalls = 0
    /\ discardTicks = -1
    /\ thumbCtx = "none"
    /\ result = NoResult
    /\ NotSubmitted

\* only the directives change
animationFrame ==
    UNCHANGED <<pc, animCall, appVars, inputVars, voiceVars, captureVars, loopVars, endVars>>

\* an easing function is applied
CallEasing ==
    /\ animCall.method = "easing"
    /\ drawn' = << [value |-> IF animCall.name = "VideoGenerationService.easeInOut"
                              THEN easeInOut(animCall.t)
                              ELSE easingFunctions(animCall.name, animCall.t)] >>
    /\ animationFrame

\* one frame draws the text; the next frame draws it again, later on the clock
CallTextAnimation ==
    /\ animCall.method = "text"
    /\ \E now \in WallClocks :
          drawn' = createTextAnimation(animCall.length, animCall.x, animCall.animation,
                                       animCall.progress, now)
    /\ animationFrame

\* a transition from the image "previous" to the image "current" is drawn
\* a transition from the image "previous" to the image "current" is drawn; line 254
\* calls this.easingFunctions[transition.easing] before `|| progress` is reached, so
\* an unknown easing is a call of undefined: a TypeError leaves the method
CallImageTransition ==
    /\ animCall.method = "transition"
    /\ IF easingLookup(animCall.transition.easing) = "undefined"
       THEN /\ animCall' = [method |-> "threw"]
            /\ drawn' = NoDraw
       ELSE /\ drawn' = AnimationService_createImageTransition("previous", "current",
                             animCall.transition, animCall.progress, UnitBounds)
            /\ UNCHANGED animCall
    /\ UNCHANGED <<pc, appVars, inputVars, voiceVars, captureVars, loopVars, endVars>>

\* a value is interpolated
CallInterpolate ==
    /\ animCall.method = "interpolate"
    /\ drawn' = << [value |-> interpolateValue(animCall.from, animCall.to,
                                               animCall.progress, animCall.easing)] >>
    /\ animationFrame

AnimationNext ==
    \/ CallEasing
    \/ CallTextAnimation
    \/ CallImageTransition
    \/ CallInterpolate

AnimationSpec == AnimationInit /\ [][AnimationNext]_vars

----------------------------------------------------------------------------
(* Properties of the planner, checked under PlannerSpec. *)

Planned == pc = "planned"
RPositive(a) == RLt(RZero, a)
SegmentLength(s) == RSub(s.endTime, s.startTime)
NumKeyPoints == Len(keyPoints)

\* C1: for every totalDuration > 0 and every N >= 0 the returned list starts at 0,
\* each later segment starts where the one before it ends, and the last segment
\* ends at totalDuration.
C1_ContiguousCover ==
    (Planned /\ RPositive(totalDuration)) =>
        /\ segments[1].startTime = RZero
        /\ \A i \in 2..Len(segments) : segments[i].startTime = segments[i - 1].endTime
        /\ segments[Len(segments)].endTime = totalDuration

\* C2: for every N >= 0 the planner emits N + 2 segments: one intro, first, one
\* conclusion, last, and between them the i-th keypoint segment carrying the i-th
\* key point.
C2_SegmentCount ==
    Planned =>
        /\ Len(segments) = NumKeyPoints + 2
        /\ segments[1].type = "intro"
        /\ segments[Len(segments)].type = "conclusion"
        /\ Cardinality({i \in 1..Len(segments) : segments[i].type = "intro"}) = 1
        /\ Cardinality({i \in 1..Len(segments) : segments[i].type = "conclusion"}) = 1
        /\ \A i \in 1..NumKeyPoints :
              /\ segments[i + 1].type = "keypoint"
              /\ segments[i + 1].text = keyPoints[i]

C2_Witness ==
    /\ Planned
    /\ NumKeyPoints = 3
    /\ keyPoints[1] # keyPoints[3]
    /\ Len(segments) = 5

\* C3: with zero key points (and a positive duration) the planner returns exactly
\* intro and conclusion, the conclusion starts where the intro ends, and every time
\* of the plan is finite (none is the quotient of a division by the zero count).
C3_ZeroKeyPoints ==
    (Planned /\ NumKeyPoints = 0 /\ RPositive(totalDuration)) =>
        /\ Len(segments) = 2
        /\ segments[1].type = "intro"
        /\ segments[2].type = "conclusion"
        /\ segments[2].startTime = segments[1].endTime
        /\ \A i \in 1..Len(segments) :
              RFinite(segments[i].startTime) /\ RFinite(segments[i].endTime)

\* C4: a call with totalDuration <= 0 fails: it never returns, and no segment list
\* exists after it.
C4_InvalidDurationRejected ==
    ~RPositive(totalDuration) => (~Planned /\ segments = NoSegments)

\* C5: for totalDuration > 0 and N >= 1 the intro and the conclusion each last
\* min(8, 0.15 * totalDuration) and every keypoint segment lasts
\* (totalDuration - intro - conclusion) / N; 60 s with 5 key points gives 8 s, 8 s,
\* five segments of 8.8 s and 7 segments in all.
C5_Durations ==
    (Planned /\ RPositive(totalDuration) /\ NumKeyPoints >= 1) =>
        LET fifteen == R(totalDuration.n * 3, totalDuration.d * 20)
            edge == IF RLt(fifteen, RInt(8)) THEN fifteen ELSE RInt(8)
            each == R(RSub(totalDuration, RAdd(edge, edge)).n,
                      RSub(totalDuration, RAdd(edge, edge)).d * NumKeyPoints)
            last == Len(segments)
        IN  /\ SegmentLength(segments[1]) = edge
            /\ SegmentLength(segments[last]) = edge
            /\ \A i \in 2..(last - 1) : SegmentLength(segments[i]) = each
            /\ (totalDuration = RInt(60) /\ NumKeyPoints = 5) =>
                  /\ last = 7
                  /\ SegmentLength(segments[1]) = RInt(8)
                  /\ SegmentLength(segments[7]) = RInt(8)
                  /\ \A i \in 2..6 : SegmentLength(segments[i]) = R(44, 5)

C5_Witness ==
    /\ Planned
    /\ totalDuration = RInt(60)
    /\ NumKeyPoints = 5
    /\ segments[2].endTime = R(84, 5)

----------------------------------------------------------------------------
(* Properties of generateSummaryVideo, checked under Spec. *)

Range(f) == {f[i] : i \in 1..Len(f)}

\* C6: generateSummaryVideo never rejects, and whatever it resolves with carries a
\* non-empty videoUrl: the recorded artifact or a placeholder video.
C6_AlwaysPlayable ==
    /\ result.status # "rejected"
    /\ result.status = "resolved" => result.videoUrl \in {"blob:video", "placeholder"}

SurfaceFailed == ctx = "null"
SinkFailed == capture = "placeholder" \/ (capture = "rejected" /\ loopStatus = "none")

\* C7: when the drawing surface or the recording sink could not be set up, no
\* recording runs and no frame is rendered, and the result is the placeholder
\* video with the original video's thumbnail (the badge composite of it counts).
C7_FailedSetupFallsBack ==
    (pc \notin {"idle", "fetching", "preloading"} /\ (SurfaceFailed \/ SinkFailed)) =>
        /\ recorder \in {"none", "inactive"}
        /\ framesRendered = 0
        /\ result.status = "resolved" =>
              /\ result.videoUrl = "placeholder"
              /\ result.thumbnailUrl \in {thumbnail, "data:composite"}

\* C8: when exactly one frame URL failed to load, a frame outside the transition
\* window paints the gradient if its segment's own image is the failed one, and
\* otherwise the image loaded from its segment's own URL.
C8_FailedImageFallsBack ==
    (/\ lastRender.invoked
     /\ lastRender.painted
     /\ lastRender.background.mode # "transition"
     /\ Cardinality(Range(originalVideoFrames) \ Range(preloadedFrames)) = 1) =>
        LET frameUrl == segments[lastRender.segment].originalVideoFrame
        IN  IF frameUrl \in Range(preloadedFrames)
            THEN lastRender.background.painted = {frameUrl}
            ELSE lastRender.background.painted = {"gradient"}

\* C11: once the host has discarded the generation, the first run of animate after
\* that observes it: the loop is no longer scheduled and the recorder no longer
\* records; no run of animate follows that one.
C11_CancelObserved ==
    /\ discardTicks >= 1 => (loopStatus # "scheduled" /\ recorder # "recording")
    /\ discardTicks < 2

CaptureEnded ==
    \/ capture \in {"blob:video", "placeholder", "rejected"}
    \/ discardTicks >= 1

\* C12: once a capture has ended (its promise settled with the recording, with the
\* placeholder or with a rejection that leads to the fallback, or a discard was
\* due to be observed), nothing of it is still in use: no animate callback that
\* draws the loaded images on the surface is scheduled and the recorder is neither
\* recording nor stopping.
C12_ReleasedAtEnd ==
    CaptureEnded => (loopStatus # "scheduled" /\ recorder \notin {"recording", "stopping"})

\* C13: a call's frame loop runs for the duration its own segment list was planned
\* with, and the result it resolves with carries the duration and the frame list of
\* its own request, whatever another call on the instance wrote meanwhile.
C13_NoSharedState ==
    /\ loopStatus # "none" => totalFrames = RScale(totalDuration, fps, 1)
    /\ result.status = "resolved" =>
          /\ result.duration = totalDuration
          /\ result.originalVideoFrames = extractOriginalVideoFrames(thumbnail)

Rendered == lastRender.invoked /\ lastRender.painted

\* C17: on every frame of segment k the previous segment handed to the renderer is
\* segment k-1 (none for the intro), and a transition never blends a segment's
\* background with itself.
C17_PreviousIsPredecessor ==
    lastRender.invoked =>
        /\ lastRender.previousSegment = lastRender.segment - 1
        /\ (lastRender.painted /\ lastRender.background.mode = "transition") =>
               lastRender.previousSegment # lastRender.segment

\* C18: for a segment that has a previous segment, the background is drawn through
\* the transition exactly on the frames whose localTime is below the duration of the
\* segment's transition directive.
C18_TransitionWindow ==
    (Rendered /\ lastRender.segment > 1) =>
        (lastRender.background.mode = "transition"
           <=> RLt(lastRender.segmentTime,
                   segments[lastRender.segment].transitions[1].duration))

\* C20: every tick finds exactly one segment whose [startTime, endTime) holds
\* currentTime and invokes the frame renderer once: after each tick the last render
\* is that of the tick's frame and as many frames were rendered as ticks have run.
C20_OneRenderPerTick ==
    loopStatus \in {"scheduled", "done"} =>
        /\ lastRender.invoked
        /\ lastRender.frame = currentFrame - 1
        /\ framesRendered = currentFrame
        /\ Cardinality({i \in 1..Len(segments) :
                          /\ RLe(segments[i].startTime, lastRender.currentTime)
                          /\ RLt(lastRender.currentTime, segments[i].endTime)}) = 1

\* C9: the frame loop is scheduled only while currentFrame / fps < totalDuration,
\* never stops short of that (a started loop is either waiting for its next tick
\* or has halted), and on halting has called mediaRecorder.stop() exactly once; a
\* 60 s loop halts after exactly 1800 ticks.
C9_LoopTerminates ==
    /\ loopStatus = "scheduled" => RLt(R(currentFrame, fps), audioDuration)
    /\ loopStatus \in {"none", "scheduled", "done"}
    /\ loopStatus # "done" => stopCalls = 0
    /\ loopStatus = "done" =>
          /\ stopCalls = 1
          /\ RLe(audioDuration, R(currentFrame, fps))
          /\ RLt(R(currentFrame - 1, fps), audioDuration)
          /\ audioDuration = RInt(60) => currentFrame = 1800

----------------------------------------------------------------------------
(* Properties of the capture, checked under CaptureSpec. *)

\* C19: a transition frame's eased progress is that of the easing the segment's
\* directive names, and a slide draws the two images where a slide along the
\* directive's direction puts them.
C19_DirectiveFollowed ==
    (Rendered /\ lastRender.background.mode = "transition") =>
        LET transition == segments[lastRender.segment].transitions[1]
            background == lastRender.background
        IN  /\ background.eased = easingFunctions(transition.easing, background.progress)
            /\ transition.type = "slide" =>
                  background.directives =
                      renderSlideTransition(background.from, background.to,
                          background.eased, CanvasBounds, transition.direction)

\* C10: for every duration > 0, a whole number of frames or not, the frame renderer
\* is never invoked with a currentTime at or past the duration the loop runs for
\* (this.audioDuration) nor at or past the duration the segments were planned for.
C10_NoRenderPastEnd ==
    lastRender.invoked =>
        /\ RLt(lastRender.currentTime, audioDuration)
        /\ RLt(lastRender.currentTime, totalDuration)

\* the last tick of a loop of 7.5 frames: frame 7, at 7/30 s
C10_Witness ==
    /\ audioDuration = R(1, 4)
    /\ loopStatus = "done"
    /\ lastRender.invoked
    /\ lastRender.painted
    /\ lastRender.frame = 7

----------------------------------------------------------------------------
(* Properties of AnimationService, checked under AnimationSpec. *)

Eased == animCall.method = "easing" /\ drawn # NoDraw

\* C14: two renders of the same text with the same animation at the same progress
\* issue the same directives (revealed characters, caret, position, opacity, scale),
\* whatever the wall clock reads.
C14_Deterministic ==
    [][(animCall.method = "text" /\ drawn # NoDraw) => drawn' = drawn]_vars

\* the rectangle a directive paints, its scale applied about the rectangle's centre
paintedRect(d) ==
    LET w == RMul(d.width, d.scale)
        h == RMul(d.height, d.scale)
    IN  [x |-> RAdd(d.x, RScale(RSub(d.width, w), 1, 2)),
         y |-> RAdd(d.y, RScale(RSub(d.height, h), 1, 2)),
         width |-> w, height |-> h]

InRect(px, py, r) ==
    /\ RLe(r.x, px) /\ RLt(px, RAdd(r.x, r.width))
    /\ RLe(r.y, py) /\ RLt(py, RAdd(r.y, r.height))

InClip(px, py, c) ==
    IF c.kind = "none" THEN TRUE
    ELSE IF c.kind = "rect" THEN InRect(px, py, c)
    ELSE LET dx == RSub(px, c.x)
             dy == RSub(py, c.y)
         IN  RLt(RAdd(RMul(dx, dx), RMul(dy, dy)), RMul(c.width, c.width))

\* directive d leaves paint on the point (px, py)
Paints(d, px, py) ==
    /\ RLt(RZero, d.alpha)
    /\ InRect(px, py, paintedRect(d))
    /\ InClip(px, py, d.clip)

\* what shows at (px, py) after the directives, drawn in order on a cleared canvas:
\* each image that paints there and is not under a later opaque one
VisibleAt(directives, px, py) ==
    LET hidden(i) == \E j \in (i + 1)..Len(directives) :
                        Paints(directives[j], px, py) /\ directives[j].alpha = ROne
        shown == {i \in 1..Len(directives) : Paints(directives[i], px, py) /\ ~hidden(i)}
    IN  {directives[i].image : i \in shown}
        \cup (IF \E i \in shown : directives[i].alpha = ROne THEN {} ELSE {"cleared"})

\* the centres of the pixels of UnitBounds
PixelCentres ==
    {<<R(2 * i + 1, 2), R(2 * j + 1, 2)>> : i \in 0..(BoundsWidth - 1), j \in 0..(BoundsHeight - 1)}

ShowsOnly(image) == \A p \in PixelCentres : VisibleAt(drawn, p[1], p[2]) = {image}

\* C16: a crossfade, slide, zoom or wipe, in any direction, shows the previous image
\* only at progress 0 and the current image only, over the whole bounds, at progress 1.
C16_TransitionEndpoints ==
    (animCall.method = "transition" /\ drawn # NoDraw) =>
        /\ animCall.progress = RZero => ShowsOnly("previous")
        /\ animCall.progress = ROne => ShowsOnly("current")

----------------------------------------------------------------------------
(* Properties of one generation request, continued (Spec)                   *)

\* the promise of createOriginalContentVideo is resolved
VideoResolved == capture \in {"blob:video", "placeholder"}

ElementProgress(e) ==
    LET animation == segments[lastRender.segment].visualElements[e].animation
        raw == RDiv(RSub(lastRender.segmentTime, animation.delay), animation.duration)
    IN  IF RLt(raw, RZero) THEN RZero ELSE IF RLt(ROne, raw) THEN ROne ELSE raw

\* C22: on every rendered frame the elements of the segment are visited in list
\* order, an element causes draw calls exactly when its clamped progress is
\* greater than zero, and none while localTime <= delay
C22_DrawnIffProgress ==
    Rendered =>
        LET elements == segments[lastRender.segment].visualElements
        IN  /\ Len(lastRender.elements) = Len(elements)
            /\ \A e \in 1..Len(elements) :
                  /\ lastRender.elements[e].type = elements[e].type
                  /\ lastRender.elements[e].calls # <<>> <=> RLt(RZero, ElementProgress(e))
                  /\ RLe(lastRender.segmentTime, elements[e].animation.delay) =>
                        lastRender.elements[e].calls = <<>>

\* a key-point frame after the delay of the progress bar and before the delay of the
\* text: the second element is drawn, the first is not
C22_Witness ==
    /\ Rendered
    /\ segments[lastRender.segment].type = "keypoint"
    /\ Len(lastRender.elements) = 2
    /\ lastRender.elements[1].calls = <<>>
    /\ lastRender.elements[2].calls = <<"fillRect", "fillRect">>
    /\ RLt(lastRender.segmentTime, segments[lastRender.segment].visualElements[1].animation.delay)

----------------------------------------------------------------------------
(* Properties of the planner, continued (PlannerSpec)                       *)

\* the transition type and direction expected of the key point with 0-based index i
IndexType(i) == IF i % 2 = 0 THEN "slide" ELSE "zoom"
IndexDirection(i) == <<"left", "right", "up", "down">>[(i % 4) + 1]

\* C23: the transition of the key-point segment with index i depends on i alone:
\* slide for even i and zoom for odd i, direction left, right, up, down for
\* i mod 4 = 0, 1, 2, 3, whatever the key points, the frames and the duration; any
\* two consecutive key-point segments differ in transition type
C23_TransitionByIndex ==
    Planned =>
        /\ \A i \in 0..(NumKeyPoints - 1) :
              /\ Len(segments[i + 2].transitions) = 1
              /\ segments[i + 2].transitions[1].type = IndexType(i)
              /\ segments[i + 2].transitions[1].direction = IndexDirection(i)
        /\ \A i \in 1..(NumKeyPoints - 1) :
              segments[i + 2].transitions[1].type # segments[i + 1].transitions[1].type

\* a plan of five key points: the fifth slides left again, the fourth zooms down
C23_Witness ==
    /\ Planned
    /\ NumKeyPoints = 5
    /\ segments[6].transitions[1].type = "slide"
    /\ segments[6].transitions[1].direction = "left"
    /\ segments[5].transitions[1].type = "zoom"
    /\ segments[5].transitions[1].direction = "down"

----------------------------------------------------------------------------
(* Properties of the voiceover (VoiceSpec)                                  *)

InNarrationRange(d) == RLe(RInt(30), d) /\ RLe(d, RInt(120))

\* C24: the duration the planner is called with and the duration the frame loop
\* reads are within [30, 120] seconds, whatever the script length and whether the
\* synthesis succeeds, is skipped for lack of a key, or fails; so the planner is
\* never called with a duration <= 0
C24_NarrationRange ==
    /\ segments # NoSegments =>
            /\ InNarrationRange(totalDuration)
            /\ InNarrationRange(audioDuration)
            /\ RPositive(totalDuration)
    /\ result # NoResult =>
            /\ InNarrationRange(result.duration)
            /\ result.segments[Len(result.segments)].endTime = result.duration

\* the synthesis failed for a short script: the mock audio, clamped up to 30 s
C24_Witness ==
    /\ pc = "voiced"
    /\ elevenLabsApiKey = "key"
    /\ audioUrl = "data:audio/wav"
    /\ totalDuration = RInt(30)
    /\ segments # NoSegments

----------------------------------------------------------------------------
(* Properties of the waits on external calls (TimedSpec)                    *)

\* C25: every wait on an external call ends, answered or not: the wait for the
\* voice-synthesis request, the wait for the background images and the wait for the
\* thumbnail image are each left eventually
C25_WaitsBounded ==
    /\ (pc = "fetching") ~> (pc # "fetching")
    /\ (pc = "preloading") ~> (pc # "preloading")
    /\ (pc = "thumbnailing") ~> (pc # "thumbnailing")

\* the wait for the background images alone, which loadImage bounds with its timer
C25_PreloadBounded == (pc = "preloading") ~> (pc # "preloading")

----------------------------------------------------------------------------
(* Properties of one generation request, continued (Spec)                   *)

\* the recorder reported an error while the frame loop was running
FailedMidCapture == recorder = "inactive" /\ capture = "rejected" /\ loopStatus # "none"

\* C26: once the recorder has reported an error in mid-capture, the capture promise
\* stays as it was settled (rejected), no further frame is rendered and stop() is
\* not called on the failed recorder
C26_ErrorEndsCapture ==
    [][FailedMidCapture => /\ capture' = "rejected"
                           /\ framesRendered' = framesRendered
                           /\ stopCalls' = stopCalls]_vars

\* the part of C26 that the code keeps: the promise is settled once, rejected
C26_SettledOnce == [][FailedMidCapture => capture' = "rejected"]_vars

\* C27: on every rendered frame some background is painted under the overlays: an
\* image, the two images of a transition, or the gradient
C27_BackgroundPainted == Rendered => lastRender.background.painted # {}

\* the same for the transition types that createImageTransition has a case for
C27_KnownTransitionsPainted ==
    (Rendered /\ lastRender.background.transition # "particle") =>
        lastRender.background.painted # {}

----------------------------------------------------------------------------
(* Properties of the AnimationService, continued (AnimationSpec)            *)

\* C29: createImageTransition called with an easing name outside the table does not
\* fail; it draws what the same transition draws with the linear easing
C29_UnknownEasingFallsBack ==
    [][(animCall.method = "transition" /\ animCall.transition.easing \notin EasingNames) =>
            /\ animCall'.method = "transition"
            /\ drawn' = AnimationService_createImageTransition("previous", "current",
                            [animCall.transition EXCEPT !.easing = "linear"],
                            animCall.progress, UnitBounds)]_vars

\* the fallback of interpolateValue, which C29 refers to: an unknown easing gives the
\* linear value
C29_InterpolateFallsBack ==
    (animCall.method = "interpolate" /\ drawn # NoDraw
        /\ animCall.easing \notin EasingNames) =>
        drawn[1].value = RAdd(animCall.from,
                              RMul(RSub(animCall.to, animCall.from), animCall.progress))

----------------------------------------------------------------------------
(* Properties of the summarization service and of YouTubeProcessor (AppSpec) *)

\* C28: the summary that handleSubmit passes to generateSummaryVideo has at least one
\* and at most six key points, whichever of Groq, OpenAI and the mock produced it
C28_KeyPointCount ==
    pc = "generating" =>
        /\ Len(aiSummary.keyPoints) >= 1
        /\ Len(aiSummary.keyPoints) <= 6

\* the parts of C28 that the code keeps: never more than six key points, and five
\* from the mock
C28_AtMostSix ==
    pc = "generating" =>
        /\ Len(aiSummary.keyPoints) <= 6
        /\ aiSummary.summary \in ContentTypes => Len(aiSummary.keyPoints) = 5

AllCompleted == \A i \in 1..Len(steps) : steps[i] = "completed"

\* C30: at most one step is 'processing', every step before it is 'completed' and
\* every step after it 'pending'; a submission that ended with a video leaves all
\* four steps 'completed'; isProcessing is true exactly while a submission runs, so
\* it is false once the submission has ended, with a video or with an error
C30_StepsTracker ==
    /\ Len(steps) = 4
    /\ Cardinality({i \in 1..Len(steps) : steps[i] = "processing"}) <= 1
    /\ \A i \in 1..Len(steps) :
          steps[i] = "processing" =>
              /\ \A j \in 1..(i - 1) : steps[j] = "completed"
              /\ \A j \in (i + 1)..Len(steps) : steps[j] = "pending"
    /\ (~isProcessing /\ generatedVideo # "null") => AllCompleted
    /\ isProcessing <=> pc # "form"
    /\ (pc = "form" /\ error = "Failed to process video. Please try again.") =>
            /\ ~isProcessing
            /\ \A i \in 1..Len(steps) : steps[i] # "processing"

\* a submission has ended with its video: all four steps are completed and
\* isProcessing is false again
C30_Witness ==
    /\ pc = "form"
    /\ generatedVideo = "result"
    /\ error = "null"
    /\ ~isProcessing
    /\ AllCompleted
    /\ Len(aiSummary.keyPoints) = 6

====
